---- MODULE Spec2Model ----
(***************************************************************************)
(* Skill-Tracker: the daily processing pipeline and its run trigger.       *)
(*                                                                         *)
(*   Spec       the run-status record of api/pipeline.py: trigger          *)
(*              requests, background tasks, status queries                 *)
(*   SpecRun    DailyPipeline.run, stage by stage, over serialized runs    *)
(*   SpecFetch  fetch_all_sources and the connectors' rate limiting        *)
(***************************************************************************)
EXTENDS Integers, Sequences, FiniteSets, TLC

VARIABLES
    \* ---- api/pipeline.py ----
    pipeline_status,   \* the process-wide status record
    bg,                \* background tasks: sequence of program positions
    requests,          \* number of trigger requests handled so far
    response,          \* the last response sent by an endpoint
    clock,             \* wall clock read by datetime.now()
    \* ---- pipeline/daily_pipeline.py ----
    run,               \* DailyPipeline.run: position, locals, stage trace
    fs,                \* files under data/raw and data/processed
    today,             \* the calendar day datetime.now() falls on
    run_result,        \* what the last run returned
    pre,               \* fs as it was when the current run started
    runs,              \* number of runs started so far
    \* ---- pipeline/data_sources.py ----
    settings,          \* the API keys of config.py
    fa,                \* fetch_all_sources: position, sources, collected data
    time_now,          \* time.time(), in ticks of half a second
    reqs,              \* outbound requests of the GitHub connector
    \* ---- ml/ and the combining step, called on their own ----
    ml,                \* the last call: function, arguments, result
    \* ---- scheduler.py, a process of its own ----
    sched              \* the scheduler: position, jobs started so far

apiVars == <<pipeline_status, bg, requests, response, clock>>
runVars == <<run, fs, today, run_result, pre, runs>>
fetchVars == <<settings, fa, time_now, reqs>>

\* ------------------------------------------------------------------------
\* Bounds
\* ------------------------------------------------------------------------
MaxTriggers == 3     \* trigger requests per behaviour
MaxClock    == 2     \* wall-clock ticks per behaviour
MaxRecords  == 1     \* largest records_processed a run result reports (Spec)

\* ------------------------------------------------------------------------
\* Values
\* ------------------------------------------------------------------------
None      == <<>>            \* Python None for an Optional field
Some(x)   == <<x>>
ErrorMsgs == {"boom"}        \* str(e) of an exception

\* ------------------------------------------------------------------------
\* DailyPipeline.run: the two shapes of its return value
\* ------------------------------------------------------------------------
CompletedResult(start, end, nrec, nskills) ==
    [status |-> "completed", started_at |-> Some(start),
     completed_at |-> Some(end), records_processed |-> Some(nrec),
     skills_extracted |-> Some(nskills), errors |-> <<>>]

\* The failed result without the exception message.
FailedResult_noerrors(start, end, msg) ==
    [status |-> "failed", started_at |-> Some(start),
     completed_at |-> Some(end), records_processed |-> None,
     skills_extracted |-> None, errors |-> <<>>]

FailedResult(start, end, msg) ==
    [status |-> "failed", started_at |-> Some(start),
     completed_at |-> Some(end), records_processed |-> None,
     skills_extracted |-> None, errors |-> <<msg>>]

\* The scheduler loop is waiting for the scheduled hour.
NoJob == [pc |-> "waiting", jobs |-> 0]

\* No function of ml/ has been called yet.
NoCall == [fn |-> "none", args |-> <<>>, result |-> <<>>]

\* result.get(key, default)
GetOr(opt, default) == IF opt = None THEN default ELSE opt[1]

\* ------------------------------------------------------------------------
\* Sequence helpers
\* ------------------------------------------------------------------------
RECURSIVE Concat(_)
Concat(ss) == IF ss = <<>> THEN <<>> ELSE Head(ss) \o Concat(Tail(ss))

RECURSIVE SumSeq(_)
SumSeq(s) == IF s = <<>> THEN 0 ELSE Head(s) + SumSeq(Tail(s))

Range(s) == {s[i] : i \in DOMAIN s}

Abs(x) == IF x < 0 THEN -x ELSE x

\* Exact fractions stand for the floats of the source: n/d with d > 0.
Rat(n, d)   == [n |-> n, d |-> d]
RatLT(a, b) == a.n * b.d < b.n * a.d
RatEq(a, b) == a.n * b.d = b.n * a.d
RatNeg(a)   == Rat(-a.n, a.d)
RatInt(k)   == Rat(k, 1)

\* ------------------------------------------------------------------------
\* nlp/extractor.py, over a small vocabulary of skill strings
\* ------------------------------------------------------------------------
Vocabulary == <<"FastAPI", "Python", "py", "React", "reactjs", "Rust">>

\* str.lower()
Lower(s) ==
    CASE s = "FastAPI" -> "fastapi"
      [] s = "Python"  -> "python"
      [] s = "React"   -> "react"
      [] s = "Rust"    -> "rust"
      [] OTHER         -> s

\* str.title()
Title(s) ==
    CASE s \in {"FastAPI", "fastapi"} -> "Fastapi"
      [] s \in {"Python", "python"}   -> "Python"
      [] s \in {"React", "react"}     -> "React"
      [] s \in {"Rust", "rust"}       -> "Rust"
      [] s = "py"                     -> "Py"
      [] s = "reactjs"                -> "Reactjs"
      [] OTHER                        -> s

\* The entries of SKILL_MAPPING whose keys occur in the vocabulary.
SKILL_MAPPING ==
    [k \in {"python", "py", "react", "reactjs", "rust"} |->
        CASE k \in {"python", "py"}     -> "Python"
          [] k \in {"react", "reactjs"} -> "React"
          [] OTHER                      -> "Rust"]

\* The lower-cased words SKILL_PATTERNS matches (whole words, IGNORECASE).
SKILL_PATTERNS == {"python", "rust", "react", "fastapi"}

\* key in text_lower: the substring test of Python's `in` on the vocabulary.
IsSubstring(key, word) ==
    \/ key = word
    \/ key = "py" /\ word = "python"
    \/ key = "react" /\ word = "reactjs"

\* The order list(set) yields is unspecified; lower-cased vocabulary order
\* is used.
ExtractOrder == <<"fastapi", "python", "py", "react", "reactjs", "rust">>

\* SkillExtractor.extract_from_text; a text is the sequence of its words.
\* spaCy is optional and absent (self.nlp is None).
extract_from_text(text) ==
    IF text = <<>> THEN <<>>
    ELSE LET words   == {Lower(w) : w \in Range(text)}
             matched == words \cap SKILL_PATTERNS
             keyed   == {k \in DOMAIN SKILL_MAPPING :
                            \E w \in words : IsSubstring(k, w)}
         IN  SelectSeq(ExtractOrder, LAMBDA s : s \in matched \cup keyed)

\* One record's contribution to SkillExtractor.extract_from_data.
ExtractRecord(record) ==
    extract_from_text(record.description)
    \o extract_from_text(record.title)
    \o extract_from_text(record.topic)
    \o record.skills \o record.languages \o record.technologies

\* SkillExtractor.extract_from_data
extract_from_data(data) ==
    Concat([i \in DOMAIN data |-> ExtractRecord(data[i])])

\* A Python dict of counts: a sequence of entries in insertion order.
DictKeys(d) == {d[i].name : i \in DOMAIN d}
DictGet(d, k, default) ==
    IF k \in DictKeys(d)
    THEN (CHOOSE e \in Range(d) : e.name = k).count
    ELSE default
DictIncr(d, k) ==
    IF k \in DictKeys(d)
    THEN [i \in DOMAIN d |->
            IF d[i].name = k THEN [d[i] EXCEPT !.count = @ + 1] ELSE d[i]]
    ELSE Append(d, [name |-> k, count |-> 1])

NormalizedName(skill) ==
    IF Lower(skill) \in DOMAIN SKILL_MAPPING
    THEN SKILL_MAPPING[Lower(skill)]
    ELSE Title(skill)

\* SkillExtractor.normalize_skills
RECURSIVE NormalizeInto(_, _)
NormalizeInto(normalized, skills) ==
    IF skills = <<>> THEN normalized
    ELSE NormalizeInto(DictIncr(normalized, NormalizedName(Head(skills))),
                       Tail(skills))

normalize_skills(skills) == NormalizeInto(<<>>, skills)

\* ------------------------------------------------------------------------
\* Files and the historical store (pipeline/daily_pipeline.py)
\* ------------------------------------------------------------------------
Absent        == <<>>          \* the path does not exist
File(content) == <<content>>
Content(file) == file[1]
FileRows(file) == IF file = Absent THEN <<>> ELSE Content(file)

\* pd.Timestamp: a calendar day and a time of day (0 is midnight).
Timestamp(day, tod) == [day |-> day, tod |-> tod]
\* Timestamp.normalize()
Normalize(ts) == Timestamp(ts.day, 0)

\* A date cell of the CSV file is Some(timestamp) when pd.to_datetime can
\* parse it and None (NaT) when it cannot.
\* dt.strftime('%Y-%m-%d')
FormatDate(ts) == Some(Normalize(ts))

HistoricalRow(skill, date, jobs) ==
    [skill |-> skill, date |-> date, job_postings |-> jobs,
     github_stars |-> 0, community_mentions |-> 0, research_citations |-> 0]

\* The frame read from the file has a 'date' column.
HasDateColumn(df) == \A i \in DOMAIN df : "date" \in DOMAIN df[i]

\* df['date'] of _load_historical_data raises KeyError('date').
KeyErrorDate(historical_file) ==
    /\ historical_file # Absent
    /\ ~ HasDateColumn(Content(historical_file))

\* _load_historical_data that also drops every row whose date cell carries
\* a time of day.
_load_historical_data_dateonly(historical_file) ==
    IF historical_file # Absent
    THEN LET df     == Content(historical_file)
             parsed == SelectSeq(df, LAMBDA r : r.date # None
                                                /\ r.date[1].tod = 0)
         IN  [i \in DOMAIN parsed |-> [parsed[i] EXCEPT !.date = @[1]]]
    ELSE <<>>

\* DailyPipeline._load_historical_data, for a file that has a date column
_load_historical_data(historical_file) ==
    IF historical_file # Absent
    THEN LET df     == Content(historical_file)
             parsed == SelectSeq(df, LAMBDA r : r.date # None)
         IN  [i \in DOMAIN parsed |-> [parsed[i] EXCEPT !.date = @[1]]]
    ELSE <<>>

\* _update_historical_data as an upsert: a row of the series with the same
\* (skill, date) as a new row is replaced by it.
_update_historical_data_upsert(historical_df, new_skills, now) ==
    LET today_ts == Normalize(now)
        new_rows == [i \in DOMAIN new_skills |->
                        HistoricalRow(new_skills[i].name, today_ts,
                                      new_skills[i].count)]
        kept == SelectSeq(historical_df,
                    LAMBDA r : ~ \E i \in DOMAIN new_rows :
                                   /\ new_rows[i].skill = r.skill
                                   /\ new_rows[i].date = r.date)
    IN  IF new_rows # <<>> THEN kept \o new_rows ELSE historical_df

\* DailyPipeline._update_historical_data; now is pd.Timestamp.now()
_update_historical_data(historical_df, new_skills, now) ==
    LET today_ts == Normalize(now)
        new_rows == [i \in DOMAIN new_skills |->
                        HistoricalRow(new_skills[i].name, today_ts,
                                      new_skills[i].count)]
    IN  IF new_rows # <<>> THEN historical_df \o new_rows ELSE historical_df

\* _save_historical_data writing only the rows of the current day.
_save_historical_data_latest(df) ==
    LET latest == SelectSeq(df, LAMBDA r :
                      \A i \in DOMAIN df : df[i].date.day <= r.date.day)
    IN  File([i \in DOMAIN latest |->
                [latest[i] EXCEPT !.date = FormatDate(@)]])

\* DailyPipeline._save_historical_data: the content written to the file
_save_historical_data(df) ==
    File([i \in DOMAIN df |->
            IF "date" \in DOMAIN df[i]
            THEN [df[i] EXCEPT !.date = FormatDate(@)]
            ELSE df[i]])

\* ------------------------------------------------------------------------
\* ml/feature_engineering.py
\* ------------------------------------------------------------------------
RecentWindowDays == 30

\* Canonical skill names in the order groupby('skill') yields its keys.
GroupOrder == <<"Fastapi", "Python", "React", "Rust">>

DateLE(a, b) == a.day < b.day \/ (a.day = b.day /\ a.tod <= b.tod)

\* group.sort_values('date')
RECURSIVE InsertByDate(_, _)
InsertByDate(sorted, r) ==
    IF sorted = <<>> THEN <<r>>
    ELSE IF DateLE(sorted[Len(sorted)].date, r.date) THEN Append(sorted, r)
    ELSE Append(InsertByDate(SubSeq(sorted, 1, Len(sorted) - 1), r),
                sorted[Len(sorted)])

RECURSIVE SortByDate(_)
SortByDate(rows) ==
    IF rows = <<>> THEN <<>>
    ELSE InsertByDate(SortByDate(SubSeq(rows, 1, Len(rows) - 1)),
                      rows[Len(rows)])

\* _calculate_growth_rate without the removal of zeros.
_calculate_growth_rate_unfiltered(values) ==
    IF Len(values) < 2 THEN RatInt(0)
    ELSE LET first == values[1]
             last  == values[Len(values)]
         IN  IF first = 0
             THEN (IF last > 0 THEN RatInt(100) ELSE RatInt(0))
             ELSE Rat((last - first) * 100, first)

\* FeatureEngineer._calculate_growth_rate
_calculate_growth_rate(values) ==
    IF Len(values) < 2 THEN RatInt(0)
    ELSE LET positive == SelectSeq(values, LAMBDA v : v > 0)
         IN  IF Len(positive) < 2 THEN RatInt(0)
             ELSE LET first == positive[1]
                      last  == positive[Len(positive)]
                  IN  IF first = 0
                      THEN (IF last > 0 THEN RatInt(100) ELSE RatInt(0))
                      ELSE Rat((last - first) * 100, first)

\* FeatureEngineer._calculate_decay_rate
_calculate_decay_rate(values) == RatNeg(_calculate_growth_rate(values))

\* Series.std() squared: the sample variance (ddof = 1), for n >= 2
SampleVariance(values) ==
    LET n  == Len(values)
        s  == SumSeq(values)
        s2 == SumSeq([i \in DOMAIN values |-> values[i] * values[i]])
    IN  Rat(n * s2 - s * s, n * (n - 1))

Column(rows, name) == [i \in DOMAIN rows |-> rows[i][name]]

\* FeatureEngineer._calculate_skill_features; skill_data is sorted by date.
\* job_volatility is kept squared (a variance) to stay exact.
_calculate_skill_features(skill, skill_data, now) ==
    LET latest == skill_data[Len(skill_data)]
        oldest == skill_data[1]
        days_span == IF Len(skill_data) > 1
                     THEN latest.date.day - oldest.date.day
                     ELSE 1
        recent_cutoff == Timestamp(now.day - RecentWindowDays, 0)
        recent_data == SelectSeq(skill_data,
                                 LAMBDA r : DateLE(recent_cutoff, r.date))
    IN  [skill               |-> skill,
         job_posting_growth  |->
             _calculate_growth_rate(Column(skill_data, "job_postings")),
         github_velocity     |->
             _calculate_growth_rate(Column(skill_data, "github_stars")),
         community_decay     |->
             _calculate_decay_rate(Column(skill_data, "community_mentions")),
         research_trend      |->
             _calculate_growth_rate(Column(skill_data, "research_citations")),
         recent_job_postings |-> SumSeq(Column(recent_data, "job_postings")),
         recent_github_stars |-> SumSeq(Column(recent_data, "github_stars")),
         job_volatility_sq   |-> IF Len(skill_data) > 1
                                 THEN SampleVariance(
                                          Column(skill_data, "job_postings"))
                                 ELSE RatInt(0),
         days_observed       |-> days_span,
         total_observations  |-> Len(skill_data),
         current_demand      |-> latest.job_postings]

\* FeatureEngineer.create_features
create_features(historical_df, now) ==
    IF historical_df = <<>> THEN <<>>
    ELSE LET keys == SelectSeq(GroupOrder,
                        LAMBDA k : \E i \in DOMAIN historical_df :
                                       historical_df[i].skill = k)
         IN  [j \in DOMAIN keys |->
                _calculate_skill_features(keys[j],
                    SortByDate(SelectSeq(historical_df,
                                         LAMBDA r : r.skill = keys[j])),
                    now)]

\* ------------------------------------------------------------------------
\* ml/forecaster.py
\* ------------------------------------------------------------------------
days_projection == 90
DaysPerYear     == 365

RatMax0(a) == IF a.n < 0 THEN RatInt(0) ELSE a

\* _simple_forecast returning the projection as it is, below zero or not.
_simple_forecast_unclamped(row) ==
    LET current_demand == row.current_demand
        growth_rate    == row.job_posting_growth
    IN  [demand |-> Rat(current_demand * (100 * DaysPerYear * growth_rate.d
                                          + days_projection * growth_rate.n),
                        100 * DaysPerYear * growth_rate.d),
         trend  |-> IF RatLT(RatInt(5), growth_rate) THEN "increasing"
                    ELSE IF RatLT(growth_rate, RatInt(0)) THEN "decreasing"
                    ELSE "stable"]

\* DemandForecaster._simple_forecast
_simple_forecast(row) ==
    LET current_demand == row.current_demand
        growth_rate    == row.job_posting_growth
        forecast_demand ==
            Rat(current_demand * (100 * DaysPerYear * growth_rate.d
                                  + days_projection * growth_rate.n),
                100 * DaysPerYear * growth_rate.d)
        trend == IF RatLT(RatInt(20), growth_rate) THEN "increasing"
                 ELSE IF RatLT(RatInt(5), growth_rate) THEN "increasing"
                 ELSE IF RatLT(growth_rate, RatInt(-10)) THEN "decreasing"
                 ELSE IF RatLT(growth_rate, RatInt(0)) THEN "decreasing"
                 ELSE "stable"
    IN  [demand |-> RatMax0(forecast_demand), trend |-> trend]

\* An ARIMA strategy that, without a series to fit, repeats the current
\* demand.
_arima_forecast_flat(skill, row) ==
    [demand |-> RatInt(row.current_demand), trend |-> "stable"]

\* DemandForecaster._arima_forecast
_arima_forecast(skill, row) == _simple_forecast(row)

\* DemandForecaster._prophet_forecast
_prophet_forecast(skill, row) == _simple_forecast(row)

\* DemandForecaster.__init__: the value of self.model_type, given whether
\* statsmodels and prophet could be imported
DemandForecaster(model_type, ARIMA_AVAILABLE, PROPHET_AVAILABLE) ==
    IF model_type = "arima" /\ ~ ARIMA_AVAILABLE THEN "simple"
    ELSE IF model_type = "prophet" /\ ~ PROPHET_AVAILABLE THEN "simple"
    ELSE model_type

\* DemandForecaster.forecast for a forecaster of the given model_type
forecast(model_type, features_df, horizon_days) ==
    [i \in DOMAIN features_df |->
        LET row == features_df[i]
            f == IF model_type = "simple" THEN _simple_forecast(row)
                 ELSE IF model_type = "arima"
                      THEN _arima_forecast(row.skill, row)
                 ELSE IF model_type = "prophet"
                      THEN _prophet_forecast(row.skill, row)
                 ELSE _simple_forecast(row)
        IN  [skill |-> row.skill, forecast_demand |-> f.demand,
             forecast_trend |-> f.trend]]

\* ------------------------------------------------------------------------
\* ml/risk_classifier.py; scores are in thousandths (3 decimals)
\* ------------------------------------------------------------------------
Min(a, b) == IF a < b THEN a ELSE b
Max(a, b) == IF a > b THEN a ELSE b

\* round(n/d) to the nearest integer, ties to even (Python's round), d > 0
RoundHalfEven(n, d) ==
    LET q == n \div d
        r == n % d
    IN  IF 2 * r < d THEN q
        ELSE IF 2 * r > d THEN q + 1
        ELSE IF q % 2 = 0 THEN q ELSE q + 1

\* The risk of a row with the noise added after the cap and no clamp.
RowRiskScore_unclamped(row, noise) ==
    LET growth_factor ==
            IF RatLT(row.job_posting_growth, RatInt(-20)) THEN 400
            ELSE IF RatLT(row.job_posting_growth, RatInt(-10)) THEN 200
            ELSE IF RatLT(row.job_posting_growth, RatInt(0)) THEN 100 ELSE 0
        decay_factor ==
            IF RatLT(RatInt(30), row.community_decay) THEN 300
            ELSE IF RatLT(RatInt(15), row.community_decay) THEN 150 ELSE 0
        recent_factor ==
            IF row.recent_job_postings = 0 THEN 200
            ELSE IF row.recent_job_postings < 5 THEN 100 ELSE 0
        volatility_factor ==
            IF RatLT(RatInt(2500), row.job_volatility_sq) THEN 100 ELSE 0
        summed == Min(1000, growth_factor + decay_factor + recent_factor
                            + volatility_factor)
    IN  (IF summed = 0 THEN 100 ELSE summed) + noise

\* The risk of one feature row; noise is the draw of
\* np.random.uniform(-0.05, 0.05), in thousandths.
RowRiskScore(row, noise) ==
    LET growth      == row.job_posting_growth
        decay       == row.community_decay
        recent_jobs == row.recent_job_postings
        growth_factor ==
            IF RatLT(growth, RatInt(-20)) THEN 400
            ELSE IF RatLT(growth, RatInt(-10)) THEN 200
            ELSE IF RatLT(growth, RatInt(0)) THEN 100 ELSE 0
        decay_factor ==
            IF RatLT(RatInt(30), decay) THEN 300
            ELSE IF RatLT(RatInt(15), decay) THEN 150 ELSE 0
        recent_factor ==
            IF recent_jobs = 0 THEN 200
            ELSE IF recent_jobs < 5 THEN 100 ELSE 0
        \* volatility > 50, on the variance
        volatility_factor ==
            IF RatLT(RatInt(2500), row.job_volatility_sq) THEN 100 ELSE 0
        summed == Min(1000, growth_factor + decay_factor + recent_factor
                            + volatility_factor)
        \* thousandths as a fraction: the base risk need not be a multiple
        \* of 0.001
        based == IF summed = 0
                 THEN IF RatLT(growth, RatInt(0))
                      THEN (IF RatLT(Rat(Abs(growth.n) * 10, growth.d),
                                     RatInt(600))
                            THEN Rat(Abs(growth.n) * 10, growth.d)
                            ELSE RatInt(600))
                      ELSE RatInt(100)
                 ELSE RatInt(summed)
        noisy == Rat(based.n + noise * based.d, based.d)
        capped == IF RatLT(RatInt(1000), noisy) THEN RatInt(1000) ELSE noisy
    IN  RoundHalfEven(RatMax0(capped).n, capped.d)

\* RiskClassifier._calculate_risk_scores: a dict keyed by skill
_calculate_risk_scores(features_df, noise) ==
    [i \in DOMAIN features_df |->
        [skill |-> features_df[i].skill,
         risk_score |-> RowRiskScore(features_df[i], noise[i])]]

\* RiskClassifier.predict_risk
predict_risk(features_df, noise) ==
    IF features_df = <<>> THEN <<>>
    ELSE _calculate_risk_scores(features_df, noise)

\* ------------------------------------------------------------------------
\* DailyPipeline: combining and categorizing
\* ------------------------------------------------------------------------
RISK_THRESHOLD_HIGH == 700
RISK_THRESHOLD_LOW  == 300

\* _categorize_risk with strict comparisons.
_categorize_risk_strict(score) ==
    IF score = None THEN "unknown"
    ELSE IF score[1] > RISK_THRESHOLD_HIGH THEN "high"
    ELSE IF score[1] < RISK_THRESHOLD_LOW THEN "low"
    ELSE "medium"

\* DailyPipeline._categorize_risk; score is None for NaN
_categorize_risk(score) ==
    IF score = None THEN "unknown"
    ELSE IF score[1] >= RISK_THRESHOLD_HIGH THEN "high"
    ELSE IF score[1] <= RISK_THRESHOLD_LOW THEN "low"
    ELSE "medium"

\* The value a left merge on 'skill' brings in: None (NaN) without a match.
Merged(rows, skill, column) ==
    IF \E i \in DOMAIN rows : rows[i].skill = skill
    THEN Some((CHOOSE r \in Range(rows) : r.skill = skill)[column])
    ELSE None

\* DailyPipeline._combine_results
_combine_results(features_df, forecasts, risk_scores) ==
    IF features_df = <<>> THEN <<>>
    ELSE [i \in DOMAIN features_df |->
            LET row == features_df[i]
                forecast_demand ==
                    IF forecasts # <<>>
                    THEN Merged(forecasts, row.skill, "forecast_demand")
                    ELSE Some(RatInt(row.current_demand))
                forecast_trend ==
                    IF forecasts # <<>>
                    THEN Merged(forecasts, row.skill, "forecast_trend")
                    ELSE Some("stable")
                risk_score ==
                    IF risk_scores # <<>>
                    THEN Merged(risk_scores, row.skill, "risk_score")
                    ELSE Some(500)
            IN  row @@ [forecast_demand |-> forecast_demand,
                        forecast_trend  |-> forecast_trend,
                        risk_score      |-> risk_score,
                        risk_category   |-> _categorize_risk(risk_score)]]

\* DailyPipeline._create_basic_features; rnd[i] holds the random draws for
\* the i-th skill: growth is the final base_growth, jitter the additive
\* uniform terms.
_create_basic_features(normalized_skills, raw_data, rnd) ==
    [i \in DOMAIN normalized_skills |->
        LET count       == normalized_skills[i].count
            base_growth == rnd[i].growth
            jitter      == rnd[i].jitter
            stars       == count + 2 * jitter
        IN  [skill               |-> normalized_skills[i].name,
             job_posting_growth  |-> RatInt(base_growth),
             github_velocity     |-> Rat(8 * base_growth + 10 * jitter, 10),
             community_decay     |-> Rat(-3 * base_growth + 10 * jitter, 10),
             research_trend      |-> Rat(2 * base_growth + 10 * jitter, 10),
             recent_job_postings |-> count,
             recent_github_stars |-> IF stars < 0 THEN 0 ELSE stars \div 2,
             job_volatility_sq   |->
                 Rat((count + 10 * Abs(jitter)) * (count + 10 * Abs(jitter)),
                     100),
             days_observed       |-> 1,
             total_observations  |-> 1,
             current_demand      |-> count]]

\* ------------------------------------------------------------------------
\* api/pipeline.py
\* ------------------------------------------------------------------------
pipeline_status_init ==
    [status |-> "idle", started_at |-> None, completed_at |-> None,
     records_processed |-> 0, errors |-> <<>>]

\* The PipelineStatus body of a response.
PipelineStatus(st, started, completed, nrec, errs) ==
    [status |-> st, started_at |-> started, completed_at |-> completed,
     records_processed |-> nrec, errors |-> errs]

\* Validation of the PipelineStatus model: started_at is a datetime and
\* not Optional, completed_at is Optional.
Validates(body) == body.started_at # None

NoResponse == [code |-> 0, body |-> None]

vars == <<apiVars, runVars, fetchVars, ml, sched>>

InitApi ==
    /\ pipeline_status = pipeline_status_init
    /\ bg = <<>>
    /\ requests = 0
    /\ response = NoResponse
    /\ clock = 0

\* trigger_pipeline without its status check: every request is accepted.
trigger_pipeline_unguarded ==
    /\ requests < MaxTriggers
    /\ requests' = requests + 1
    /\ bg' = Append(bg, "scheduled")
    /\ response' = [code |-> 200,
                    body |-> Some(PipelineStatus("running", Some(clock),
                                                 None, 0, <<>>))]
    /\ UNCHANGED <<pipeline_status, clock, runVars, fetchVars, ml, sched>>

\* POST /run
trigger_pipeline ==
    /\ requests < MaxTriggers
    /\ requests' = requests + 1
    /\ IF pipeline_status.status = "running"
       THEN /\ response' = [code |-> 409, body |-> None]
            /\ UNCHANGED <<pipeline_status, bg>>
       ELSE /\ bg' = Append(bg, "scheduled")
            /\ response' = [code |-> 200,
                            body |-> Some(PipelineStatus("running", Some(clock),
                                                         None, 0, <<>>))]
            /\ UNCHANGED pipeline_status
    /\ UNCHANGED <<clock, runVars, fetchVars, ml, sched>>

\* run_pipeline_background up to its first suspension: the status is set to
\* running, DailyPipeline() is constructed and pipeline.run() is awaited.
run_pipeline_background_start(t) ==
    /\ bg[t] = "scheduled"
    /\ \/ /\ pipeline_status' = [pipeline_status EXCEPT
                                   !.status = "running",
                                   !.started_at = Some(clock),
                                   !.errors = <<>>]
          /\ bg' = [bg EXCEPT ![t] = "in_run"]
       \/ \E e \in ErrorMsgs :   \* DailyPipeline() raises
          /\ pipeline_status' = [pipeline_status EXCEPT
                                   !.status = "failed",
                                   !.started_at = Some(clock),
                                   !.completed_at = Some(clock),
                                   !.errors = <<e>>]
          /\ bg' = [bg EXCEPT ![t] = "done"]
    /\ UNCHANGED <<requests, response, clock, runVars, fetchVars, ml, sched>>

\* run_pipeline_background without its except clause: an exception of
\* pipeline.run() ends the task and the record is left as it is.
run_pipeline_background_finish_uncaught(t) ==
    /\ bg[t] = "in_run"
    /\ \E result \in
            {CompletedResult(clock, clock, n, 0) : n \in 0..MaxRecords}
            \cup {FailedResult(clock, clock, e) : e \in ErrorMsgs} :
          pipeline_status' =
              IF result.status = "failed" THEN pipeline_status
              ELSE [pipeline_status EXCEPT
                      !.status = result.status,
                      !.completed_at = result.completed_at,
                      !.records_processed = GetOr(result.records_processed, 0),
                      !.errors = result.errors]
    /\ bg' = [bg EXCEPT ![t] = "done"]
    /\ UNCHANGED <<requests, response, clock, runVars, fetchVars, ml, sched>>

\* run_pipeline_background after pipeline.run() has returned result.
run_pipeline_background_finish(t) ==
    /\ bg[t] = "in_run"
    /\ \E result \in
            {CompletedResult(clock, clock, n, 0) : n \in 0..MaxRecords}
            \cup {FailedResult(clock, clock, e) : e \in ErrorMsgs} :
          pipeline_status' = [pipeline_status EXCEPT
              !.status = result.status,
              !.completed_at = result.completed_at,
              !.records_processed = GetOr(result.records_processed, 0),
              !.errors = result.errors]
    /\ bg' = [bg EXCEPT ![t] = "done"]
    /\ UNCHANGED <<requests, response, clock, runVars, fetchVars, ml, sched>>

\* GET /status
get_pipeline_status ==
    /\ LET body == PipelineStatus(pipeline_status.status,
                                  pipeline_status.started_at,
                                  pipeline_status.completed_at,
                                  pipeline_status.records_processed,
                                  pipeline_status.errors)
       IN  response' = IF Validates(body)
                       THEN [code |-> 200, body |-> Some(body)]
                       ELSE [code |-> 500, body |-> None]  \* ValidationError
    /\ UNCHANGED <<pipeline_status, bg, requests, clock, runVars, fetchVars, ml, sched>>

Tick ==
    /\ clock < MaxClock
    /\ clock' = clock + 1
    /\ UNCHANGED <<pipeline_status, bg, requests, response, runVars, fetchVars, ml, sched>>


\* ------------------------------------------------------------------------
\* pipeline/data_sources.py: what the connectors return
\* ------------------------------------------------------------------------
RawRecord(source, description, title, topic, skills, languages, technologies) ==
    [source |-> source, description |-> description, title |-> title,
     topic |-> topic, skills |-> skills, languages |-> languages,
     technologies |-> technologies]

\* A repository record of GitHubSource.fetch (the keys of its languages)
github_repo ==
    RawRecord("github", <<>>, <<>>, <<>>, <<>>, <<"Python">>, <<>>)

\* JobBoardSource.fetch: mock_jobs, abridged to the vocabulary
mock_jobs ==
    << RawRecord("job_board", <<"Python", "FastAPI">>, <<"Python">>, <<>>,
                 <<"Python", "FastAPI">>, <<>>, <<>>) >>

\* CommunitySource.fetch: mock_mentions, abridged
mock_mentions ==
    << RawRecord("community", <<>>, <<>>, <<"py">>, <<>>, <<>>, <<>>) >>

\* ResearchSource.fetch: mock_research, abridged
mock_research ==
    << RawRecord("research", <<>>, <<>>, <<>>, <<>>, <<>>, <<"Python">>) >>

\* The outcome of one connector's fetch(): it raises or returns a list.
Raises        == [raises |-> TRUE, data |-> <<>>]
Returns(data) == [raises |-> FALSE, data |-> data]

\* The loop body without the try / except around one source: a raising
\* source loses what was collected so far.
FetchFrom_unisolated(all_data, outcome) ==
    IF outcome.raises THEN <<>> ELSE all_data \o outcome.data

\* One iteration of the loop of fetch_all_sources: try / except Exception
FetchFrom(all_data, outcome) ==
    IF outcome.raises THEN all_data ELSE all_data \o outcome.data

\* fetch_all_sources, given the outcome of each source in `sources` order
RECURSIVE FetchLoop(_, _)
FetchLoop(all_data, outcomes) ==
    IF outcomes = <<>> THEN all_data
    ELSE FetchLoop(FetchFrom(all_data, Head(outcomes)), Tail(outcomes))

fetch_all_sources(outcomes) == FetchLoop(<<>>, outcomes)

\* ------------------------------------------------------------------------
\* fetch_all_sources and the connectors, step by step
\* ------------------------------------------------------------------------
MaxRepos   == 2     \* repositories a search response lists (the code reads 20)
MaxLatency == 1     \* longest duration of one request, in ticks
MaxGap     == 1     \* longest idle time before a request is issued, in ticks
StartTime  == 4     \* time.time() when the process starts, in ticks

\* rate_limit_delay of each connector class, in ticks of half a second
GITHUB_DELAY    == 1
JOB_BOARD_DELAY == 4
COMMUNITY_DELAY == 3
RESEARCH_DELAY  == 4

SourceNames == <<"GitHubSource", "JobBoardSource", "CommunitySource",
                 "ResearchSource">>

ApiKeys == {"", "key"}       \* "" is the default of config.py

\* DataSource.__init__ and the subclasses' __init__
NewSource(name, api_key) ==
    [name |-> name,
     rate_limit_delay |-> CASE name = "GitHubSource"    -> GITHUB_DELAY
                            [] name = "JobBoardSource"  -> JOB_BOARD_DELAY
                            [] name = "CommunitySource" -> COMMUNITY_DELAY
                            [] OTHER                    -> RESEARCH_DELAY,
     last_request_time |-> 0,
     api_key |-> api_key,
     \* self.headers carries Authorization only when api_key is truthy
     authorized |-> (name = "GitHubSource" /\ api_key # "")]

\* DataSource._rate_limit: the time at which it returns, given the time at
\* which it is called (time.sleep blocks for the remaining delay)
RateLimitReturn(source, current_time) ==
    LET elapsed == current_time - source.last_request_time
    IN  IF elapsed < source.rate_limit_delay
        THEN current_time + (source.rate_limit_delay - elapsed)
        ELSE current_time

\* DataSource._rate_limit: the instance afterwards
_rate_limit(source, current_time) ==
    [source EXCEPT !.last_request_time = RateLimitReturn(source, current_time)]

\* A mock connector that degrades to an empty list without credentials.
MockFetch_needs_key(source) ==
    CASE source.name = "JobBoardSource" ->
             (IF source.api_key = "" THEN <<>> ELSE mock_jobs)
      [] source.name = "CommunitySource" -> mock_mentions
      [] OTHER                           -> mock_research

\* The list a mock connector's fetch() returns; api_key is not consulted.
MockFetch(source) ==
    CASE source.name = "JobBoardSource"  -> mock_jobs
      [] source.name = "CommunitySource" -> mock_mentions
      [] OTHER                           -> mock_research

IdleFetch ==
    [pc |-> "idle", i |-> 1, all_data |-> <<>>, outcomes |-> <<>>,
     sources |-> <<>>,
     gh |-> [pc |-> "start", results |-> <<>>, todo |-> 0]]

InitFetchIdle ==
    /\ settings = [GITHUB_API_KEY |-> "", JOB_BOARD_API_KEY |-> ""]
    /\ fa = IdleFetch
    /\ time_now = StartTime
    /\ reqs = <<>>

InitFetch ==
    /\ settings \in [GITHUB_API_KEY : ApiKeys, JOB_BOARD_API_KEY : ApiKeys]
    /\ fa = IdleFetch
    /\ time_now = StartTime
    /\ reqs = <<>>

\* The current source's fetch() has ended with the given outcome: the body
\* of the for loop of fetch_all_sources.
SourceDone(outcome) ==
    [fa EXCEPT !.all_data = FetchFrom(fa.all_data, outcome),
               !.outcomes = Append(@, outcome),
               !.i = @ + 1]

\* fetch_all_sources is called: lines 261-268
fetch_all_start ==
    /\ fa.pc = "idle"
    /\ fa' = [fa EXCEPT !.pc = "loop",
                 !.sources =
                     <<NewSource("GitHubSource", settings.GITHUB_API_KEY),
                       NewSource("JobBoardSource", settings.JOB_BOARD_API_KEY),
                       NewSource("CommunitySource", ""),
                       NewSource("ResearchSource", "")>>]
    /\ UNCHANGED <<settings, time_now, reqs, apiVars, runVars, ml, sched>>

\* GitHubSource.fetch, line 46
github_rate_limit ==
    /\ fa.pc = "loop" /\ fa.i = 1 /\ fa.gh.pc = "start"
    /\ fa' = [fa EXCEPT !.sources[1] = _rate_limit(@, time_now),
                        !.gh.pc = "search"]
    /\ time_now' = RateLimitReturn(fa.sources[1], time_now)
    /\ UNCHANGED <<settings, reqs, apiVars, runVars, ml, sched>>

\* An outbound request of the GitHub connector: issued after an idle gap,
\* answered after its latency.
Request(gap, latency) ==
    [start |-> time_now + gap, end |-> time_now + gap + latency,
     authorized |-> fa.sources[1].authorized]

\* GitHubSource.fetch, lines 51-79: the repository search
github_search ==
    /\ fa.pc = "loop" /\ fa.i = 1 /\ fa.gh.pc = "search"
    /\ \E gap \in 0..MaxGap, latency \in 0..MaxLatency :
          /\ reqs' = Append(reqs, Request(gap, latency))
          /\ time_now' = time_now + gap + latency
    /\ \/ \E items \in 1..MaxRepos :        \* status 200
             fa' = [fa EXCEPT !.gh.pc = "languages", !.gh.todo = items]
       \/ fa' = [fa EXCEPT !.gh.pc = "return"]  \* no items, other status, error
    /\ UNCHANGED <<settings, apiVars, runVars, ml, sched>>

\* GitHubSource._get_repo_languages, then results.append: lines 65-75
github_languages ==
    /\ fa.pc = "loop" /\ fa.i = 1 /\ fa.gh.pc = "languages"
    /\ \E gap \in 0..MaxGap, latency \in 0..MaxLatency :
          /\ reqs' = Append(reqs, Request(gap, latency))
          /\ time_now' = time_now + gap + latency
    /\ \E languages \in {<<"Python">>, <<>>} :   \* <<>>: other status, error
          fa' = [fa EXCEPT
                   !.gh.results = Append(@, [github_repo EXCEPT
                                               !.languages = languages]),
                   !.gh.todo = @ - 1,
                   !.gh.pc = IF fa.gh.todo = 1 THEN "return" ELSE "languages"]
    /\ UNCHANGED <<settings, apiVars, runVars, ml, sched>>

\* GitHubSource.fetch returns, line 81
github_return ==
    /\ fa.pc = "loop" /\ fa.i = 1 /\ fa.gh.pc = "return"
    /\ fa' = SourceDone(Returns(fa.gh.results))
    /\ UNCHANGED <<settings, time_now, reqs, apiVars, runVars, ml, sched>>

\* fetch() of JobBoardSource, CommunitySource or ResearchSource
mock_fetch ==
    /\ fa.pc = "loop" /\ fa.i \in 2..4
    /\ fa' = [SourceDone(Returns(MockFetch(fa.sources[fa.i])))
              EXCEPT !.sources[fa.i] = _rate_limit(@, time_now)]
    /\ time_now' = RateLimitReturn(fa.sources[fa.i], time_now)
    /\ UNCHANGED <<settings, reqs, apiVars, runVars, ml, sched>>

\* The current source's fetch() raises: except Exception, lines 274-275
source_raises ==
    /\ fa.pc = "loop" /\ fa.i \in 1..4
    /\ fa.i = 1 => fa.gh.pc = "start"
    /\ fa' = SourceDone(Raises)
    /\ UNCHANGED <<settings, time_now, reqs, apiVars, runVars, ml, sched>>

\* fetch_all_sources returns all_data, line 277
fetch_all_return ==
    /\ fa.pc = "loop" /\ fa.i = 5
    /\ fa' = [fa EXCEPT !.pc = "done"]
    /\ UNCHANGED <<settings, time_now, reqs, apiVars, runVars, ml, sched>>

NextFetch ==
    \/ fetch_all_start
    \/ github_rate_limit
    \/ github_search
    \/ github_languages
    \/ github_return
    \/ mock_fetch
    \/ source_raises
    \/ fetch_all_return

\* ------------------------------------------------------------------------
\* DailyPipeline.run
\* ------------------------------------------------------------------------
MaxRuns == 2     \* runs per behaviour
MaxDay  == 1     \* calendar days 0..MaxDay

Days == 0..MaxDay

\* np.random.uniform(-0.05, 0.05), in thousandths: the draws considered
NoiseDraws == {-50, 50}
\* random draws of _create_basic_features considered
BootstrapDraws == [growth : {-25, 0, 50}, jitter : {-3, 0, 3}]

Stages == <<"fetch", "snapshot", "extract", "normalize", "load-history",
            "update-history", "persist-history", "engineer-features",
            "forecast", "classify-risk", "combine", "persist-output">>

\* The stage order with the snapshot step left out.
StageAfter_nosnapshot(stage) ==
    LET i == CHOOSE j \in DOMAIN Stages : Stages[j] = stage
    IN  IF i = Len(Stages) THEN "done"
        ELSE IF Stages[i + 1] = "snapshot" THEN Stages[i + 2]
        ELSE Stages[i + 1]

StageAfter(stage) ==
    LET i == CHOOSE j \in DOMAIN Stages : Stages[j] = stage
    IN  IF i = Len(Stages) THEN "done" ELSE Stages[i + 1]

NoLocals ==
    [raw_data |-> <<>>, extracted_skills |-> <<>>,
     normalized_skills |-> <<>>, historical_data |-> <<>>,
     updated_data |-> <<>>, features_df |-> <<>>, forecasts |-> <<>>,
     risk_scores |-> <<>>, results_df |-> <<>>]

IdleRun == [pc |-> "idle", start_time |-> 0, trace |-> <<>>,
            failed_at |-> "", l |-> NoLocals]

\* The outcomes of the four connectors considered by a run: the GitHub
\* connector raises, yields nothing or yields a repository and the mock
\* sources return their lists, or every connector raises.
RunOutcomes ==
    {<<g, Returns(mock_jobs), Returns(mock_mentions), Returns(mock_research)>> :
        g \in {Raises, Returns(<<>>), Returns(<<github_repo>>)}}
    \cup {<<Raises, Raises, Raises, Raises>>}

\* A historical file as earlier runs leave it: date-only cells.
SeedHistory ==
    File(<< HistoricalRow("Python", FormatDate(Timestamp(-40, 0)), 2),
            HistoricalRow("Python", FormatDate(Timestamp(0, 0)), 5),
            HistoricalRow("Fastapi", FormatDate(Timestamp(0, 0)), 1) >>)

InitRun ==
    /\ run = IdleRun
    /\ fs \in [historical_file : {Absent, SeedHistory},
               processed : {[d \in Days |-> Absent]},
               snapshots : {[d \in Days |-> Absent]}]
    /\ today = 0
    /\ run_result = None
    /\ pre = fs
    /\ runs = 0

Init == InitApi /\ InitRun /\ InitFetchIdle /\ ml = NoCall /\ sched = NoJob

Now == Timestamp(today, 1)     \* some time during the day

\* A stage finished: record it and move to the next one.
Advance(stage, locals) ==
    [run EXCEPT !.pc = StageAfter(stage), !.trace = Append(@, stage),
                !.l = locals]

\* DailyPipeline.run is entered.
run_start ==
    /\ run.pc \in {"idle", "done"}
    /\ runs < MaxRuns
    /\ runs' = runs + 1
    /\ run' = [IdleRun EXCEPT !.pc = "fetch", !.start_time = today]
    /\ pre' = fs
    /\ run_result' = None
    /\ UNCHANGED <<fs, today, apiVars, fetchVars, ml, sched>>

\* Step 1
run_fetch ==
    /\ run.pc = "fetch"
    /\ \E outcomes \in RunOutcomes :
          run' = Advance("fetch",
                    [run.l EXCEPT !.raw_data = fetch_all_sources(outcomes)])
    /\ UNCHANGED <<fs, today, run_result, pre, runs, apiVars, fetchVars, ml, sched>>

\* Step 2: _save_raw_snapshot
run_snapshot ==
    /\ run.pc = "snapshot"
    /\ fs' = [fs EXCEPT !.snapshots[today] = File(run.l.raw_data)]
    /\ run' = Advance("snapshot", run.l)
    /\ UNCHANGED <<today, run_result, pre, runs, apiVars, fetchVars, ml, sched>>

\* Step 3 (the extracted roles are not used by any later stage)
run_extract ==
    /\ run.pc = "extract"
    /\ run' = Advance("extract",
                [run.l EXCEPT !.extracted_skills =
                                  extract_from_data(run.l.raw_data)])
    /\ UNCHANGED <<fs, today, run_result, pre, runs, apiVars, fetchVars, ml, sched>>

\* Step 4
run_normalize ==
    /\ run.pc = "normalize"
    /\ run' = Advance("normalize",
                [run.l EXCEPT !.normalized_skills =
                                  normalize_skills(run.l.extracted_skills)])
    /\ UNCHANGED <<fs, today, run_result, pre, runs, apiVars, fetchVars, ml, sched>>

\* Step 5 with a load that raises on a date it cannot parse
\* (errors='raise').
run_load_history_strict ==
    /\ run.pc = "load-history"
    /\ ~ KeyErrorDate(fs.historical_file)
    /\ IF \E r \in Range(FileRows(fs.historical_file)) : r.date = None
       THEN /\ run_result' = Some(FailedResult(run.start_time, today,
                                               "Unknown datetime string"))
            /\ run' = [run EXCEPT !.pc = "done", !.failed_at = run.pc,
                                  !.l = NoLocals]
       ELSE /\ run' = Advance("load-history",
                         [run.l EXCEPT !.historical_data =
                             _load_historical_data(fs.historical_file)])
            /\ UNCHANGED run_result
    /\ UNCHANGED <<fs, today, pre, runs, apiVars, fetchVars, ml, sched>>

\* Step 5, line 102
run_load_history ==
    /\ run.pc = "load-history"
    /\ ~ KeyErrorDate(fs.historical_file)
    /\ run' = Advance("load-history",
                [run.l EXCEPT !.historical_data =
                                  _load_historical_data(fs.historical_file)])
    /\ UNCHANGED <<fs, today, run_result, pre, runs, apiVars, fetchVars, ml, sched>>

\* Step 5, line 103
run_update_history ==
    /\ run.pc = "update-history"
    /\ run' = Advance("update-history",
                [run.l EXCEPT !.updated_data =
                    _update_historical_data(run.l.historical_data,
                                            run.l.normalized_skills, Now)])
    /\ UNCHANGED <<fs, today, run_result, pre, runs, apiVars, fetchVars, ml, sched>>

\* Step 5, line 104
run_save_history ==
    /\ run.pc = "persist-history"
    /\ fs' = [fs EXCEPT !.historical_file =
                            _save_historical_data(run.l.updated_data)]
    /\ run' = Advance("persist-history", run.l)
    /\ UNCHANGED <<today, run_result, pre, runs, apiVars, fetchVars, ml, sched>>

\* Step 6 computing the features from the series as it was loaded, without
\* the rows of this run.
run_engineer_features_stale ==
    /\ run.pc = "engineer-features"
    /\ LET features_df == create_features(run.l.historical_data, Now)
       IN  IF features_df = <<>> /\ run.l.normalized_skills # <<>>
           THEN \E rnd \in [DOMAIN run.l.normalized_skills -> BootstrapDraws] :
                   run' = [Advance("engineer-features",
                             [run.l EXCEPT !.features_df =
                                 _create_basic_features(
                                     run.l.normalized_skills,
                                     run.l.raw_data, rnd)])
                           EXCEPT !.trace = Append(@, "bootstrap-fallback")]
           ELSE run' = Advance("engineer-features",
                          [run.l EXCEPT !.features_df = features_df])
    /\ UNCHANGED <<fs, today, run_result, pre, runs, apiVars, fetchVars, ml, sched>>

\* Step 6, with the fallback of lines 111-113
run_engineer_features ==
    /\ run.pc = "engineer-features"
    /\ LET features_df == create_features(run.l.updated_data, Now)
       IN  IF features_df = <<>> /\ run.l.normalized_skills # <<>>
           THEN \E rnd \in [DOMAIN run.l.normalized_skills -> BootstrapDraws] :
                   run' = [Advance("engineer-features",
                             [run.l EXCEPT !.features_df =
                                 _create_basic_features(
                                     run.l.normalized_skills,
                                     run.l.raw_data, rnd)])
                           EXCEPT !.trace = Append(@, "bootstrap-fallback")]
           ELSE run' = Advance("engineer-features",
                          [run.l EXCEPT !.features_df = features_df])
    /\ UNCHANGED <<fs, today, run_result, pre, runs, apiVars, fetchVars, ml, sched>>

\* Step 7, line 117: self.forecaster is DemandForecaster() ("simple")
run_forecast ==
    /\ run.pc = "forecast"
    /\ run' = Advance("forecast",
                [run.l EXCEPT !.forecasts =
                    forecast("simple", run.l.features_df, days_projection)])
    /\ UNCHANGED <<fs, today, run_result, pre, runs, apiVars, fetchVars, ml, sched>>

\* Step 7, line 118
run_classify_risk ==
    /\ run.pc = "classify-risk"
    /\ \E noise \in [DOMAIN run.l.features_df -> NoiseDraws] :
          run' = Advance("classify-risk",
                    [run.l EXCEPT !.risk_scores =
                                      predict_risk(run.l.features_df, noise)])
    /\ UNCHANGED <<fs, today, run_result, pre, runs, apiVars, fetchVars, ml, sched>>

\* Step 8
run_combine ==
    /\ run.pc = "combine"
    /\ run' = Advance("combine",
                [run.l EXCEPT !.results_df =
                    _combine_results(run.l.features_df, run.l.forecasts,
                                     run.l.risk_scores)])
    /\ UNCHANGED <<fs, today, run_result, pre, runs, apiVars, fetchVars, ml, sched>>

\* Step 9 writing only the first row of the results.
run_save_output_first ==
    /\ run.pc = "persist-output"
    /\ fs' = [fs EXCEPT !.processed[today] =
                            File(IF run.l.results_df = <<>> THEN <<>>
                                 ELSE <<run.l.results_df[1]>>)]
    /\ run' = [Advance("persist-output", NoLocals) EXCEPT !.pc = "done"]
    /\ run_result' = Some(CompletedResult(run.start_time, today,
                                          Len(run.l.raw_data),
                                          Len(run.l.normalized_skills)))
    /\ UNCHANGED <<today, pre, runs, apiVars, fetchVars, ml, sched>>

\* Step 9 and the return of the completed result
run_save_output ==
    /\ run.pc = "persist-output"
    /\ fs' = [fs EXCEPT !.processed[today] = File(run.l.results_df)]
    /\ run' = [Advance("persist-output", NoLocals) EXCEPT !.pc = "done"]
    /\ run_result' = Some(CompletedResult(run.start_time, today,
                                          Len(run.l.raw_data),
                                          Len(run.l.normalized_skills)))
    /\ UNCHANGED <<today, pre, runs, apiVars, fetchVars, ml, sched>>

\* An exception that is logged and swallowed: the run goes on with the
\* next stage.
run_raise_swallowed ==
    /\ run.pc \in Range(Stages)
    /\ run' = [run EXCEPT !.pc = StageAfter(run.pc), !.failed_at = run.pc]
    /\ UNCHANGED <<fs, today, run_result, pre, runs, apiVars, fetchVars, ml, sched>>

\* An exception handler that still writes the output artifact.
run_raise_writing ==
    /\ run.pc \in Range(Stages)
    /\ \E e \in ErrorMsgs :
          run_result' = Some(FailedResult(run.start_time, today, e))
    /\ fs' = [fs EXCEPT !.processed[today] = File(run.l.results_df)]
    /\ run' = [run EXCEPT !.pc = "done", !.failed_at = run.pc,
                          !.l = NoLocals]
    /\ UNCHANGED <<today, pre, runs, apiVars, fetchVars, ml, sched>>

\* An exception handler that restores historical_skills.csv to its content
\* at the start of the run.
run_raise_rollback ==
    /\ run.pc \in Range(Stages)
    /\ \E e \in ErrorMsgs :
          run_result' = Some(FailedResult(run.start_time, today, e))
    /\ fs' = [fs EXCEPT !.historical_file = pre.historical_file]
    /\ run' = [run EXCEPT !.pc = "done", !.failed_at = run.pc,
                          !.l = NoLocals]
    /\ UNCHANGED <<today, pre, runs, apiVars, fetchVars, ml, sched>>

\* The stage about to run raises: except Exception, lines 145-152
run_raise ==
    /\ run.pc \in Range(Stages)
    /\ \E e \in ErrorMsgs :
          run_result' = Some(FailedResult(run.start_time, today, e))
    /\ run' = [run EXCEPT !.pc = "done", !.failed_at = run.pc,
                          !.l = NoLocals]
    /\ UNCHANGED <<fs, today, pre, runs, apiVars, fetchVars, ml, sched>>

\* Step 5, line 102 raises KeyError('date'): except Exception, lines 145-152
run_load_history_raises ==
    /\ run.pc = "load-history"
    /\ KeyErrorDate(fs.historical_file)
    /\ run_result' = Some(FailedResult(run.start_time, today, "'date'"))
    /\ run' = [run EXCEPT !.pc = "done", !.failed_at = run.pc,
                          !.l = NoLocals]
    /\ UNCHANGED <<fs, today, pre, runs, apiVars, fetchVars, ml, sched>>

\* Midnight passes. Runs take minutes and are started at 02:00 or by hand:
\* no run is taken to span midnight.
NextDay ==
    /\ today < MaxDay
    /\ run.pc \in {"idle", "done"}
    /\ today' = today + 1
    /\ UNCHANGED <<run, fs, run_result, pre, runs, apiVars, fetchVars, ml, sched>>

NextRun ==
    \/ run_start
    \/ run_fetch
    \/ run_snapshot
    \/ run_extract
    \/ run_normalize
    \/ run_load_history
    \/ run_update_history
    \/ run_save_history
    \/ run_engineer_features
    \/ run_forecast
    \/ run_classify_risk
    \/ run_combine
    \/ run_save_output
    \/ run_raise
    \/ NextDay

SpecRun == Init /\ [][NextRun]_vars

\* Historical files as other writers may leave them.
\* No date column:
NoDateFile ==
    File(<< [skill |-> "Python", job_postings |-> 5, github_stars |-> 0,
             community_mentions |-> 0, research_citations |-> 0] >>)
\* Date cells pd.to_datetime cannot parse, among cells it can:
MalformedDatesFile ==
    File(<< HistoricalRow("Python", None, 3),
            HistoricalRow("Python", FormatDate(Timestamp(0, 0)), 5),
            HistoricalRow("Fastapi", None, 1) >>)
\* No date cell can be parsed:
AllMalformedFile == File(<< HistoricalRow("Python", None, 3) >>)
\* Full datetime strings, as str(Timestamp) writes them, one row twice:
LegacyFile ==
    File(<< HistoricalRow("Python", Some(Timestamp(-1, 1)), 4),
            HistoricalRow("Python", Some(Timestamp(-1, 1)), 4),
            HistoricalRow("Fastapi", Some(Timestamp(0, 2)), 1) >>)

\* The file a first run finds: none, one of the above, or one an earlier
\* run wrote.
StoreFiles ==
    {Absent, NoDateFile, MalformedDatesFile, AllMalformedFile, LegacyFile,
     SeedHistory}

InitStore ==
    /\ InitApi
    /\ InitFetchIdle
    /\ run = IdleRun
    /\ fs \in [historical_file : StoreFiles,
               processed : {[d \in Days |-> Absent]},
               snapshots : {[d \in Days |-> Absent]}]
    /\ today = 0
    /\ run_result = None
    /\ pre = fs
    /\ runs = 0
    /\ ml = NoCall /\ sched = NoJob

\* Runs in which no stage raises but the load of a file without a date
\* column.
NextStore ==
    \/ run_start
    \/ run_fetch
    \/ run_snapshot
    \/ run_extract
    \/ run_normalize
    \/ run_load_history
    \/ run_load_history_raises
    \/ run_update_history
    \/ run_save_history
    \/ run_engineer_features
    \/ run_forecast
    \/ run_classify_risk
    \/ run_combine
    \/ run_save_output

SpecStore == InitStore /\ [][NextStore]_vars

InitF ==
    /\ InitApi
    /\ InitRun
    /\ fs.historical_file = Absent
    /\ InitFetch
    /\ ml = NoCall /\ sched = NoJob

SpecFetch == InitF /\ [][NextFetch]_vars

\* ------------------------------------------------------------------------
\* The functions of ml/ and _combine_results, called on their own: one call
\* per behaviour, and predict_risk evaluated again on the same frame.
\* ------------------------------------------------------------------------
MaxObs       == 5     \* largest observation of a series
MaxSeriesLen == 3     \* longest series

\* values: the column of one skill, oldest first
SeriesInputs == UNION {[1..n -> 0..MaxObs] : n \in 0..MaxSeriesLen}

\* Feature values on both sides of every threshold of the rules.
GrowthInputs     == {Rat(-500, 1), Rat(-85, 1), Rat(-15, 1), Rat(-5, 1),
                     Rat(0, 1), Rat(50, 1)}
DecayInputs      == {Rat(0, 1), Rat(20, 1), Rat(85, 1)}
RecentInputs     == {0, 3, 10}
VolatilityInputs == {Rat(0, 1), Rat(5000, 1)}     \* squared
DemandInputs     == {0, 4}

\* A row of the features frame, with the keys of _calculate_skill_features
FeatureRow(skill, growth, decay, recent, volatility_sq, demand) ==
    [skill               |-> skill,
     job_posting_growth  |-> growth,
     github_velocity     |-> RatInt(0),
     community_decay     |-> decay,
     research_trend      |-> RatInt(0),
     recent_job_postings |-> recent,
     recent_github_stars |-> 0,
     job_volatility_sq   |-> volatility_sq,
     days_observed       |-> 1,
     total_observations  |-> 1,
     current_demand      |-> demand]

FeatureRows ==
    {FeatureRow("Python", g, d, r, v, c) :
        g \in GrowthInputs, d \in DecayInputs, r \in RecentInputs,
        v \in VolatilityInputs, c \in DemandInputs}

\* horizon_days passed to forecast; 90 is the default
HorizonInputs == {30, 90, 365}
\* DemandForecaster(model_type)
ModelTypes == {"simple", "arima", "prophet", "lstm"}

\* risk_score values on both sides of the category thresholds
ScoreInputs == {0, 300, 301, 500, 699, 700, 1000}

\* The frames handed to _combine_results: two skills, forecasts for both
\* or none, and a risk score for each, for one or for neither.
CombineFeatures ==
    << FeatureRow("Python", RatInt(0), RatInt(0), 10, RatInt(0), 4),
       FeatureRow("Rust", Rat(-15, 1), RatInt(0), 3, RatInt(0), 0) >>

RiskFrame(p, r) ==
    (IF p = None THEN <<>> ELSE << [skill |-> "Python", risk_score |-> p[1]] >>)
    \o (IF r = None THEN <<>> ELSE << [skill |-> "Rust", risk_score |-> r[1]] >>)

OptionalScores == {None} \cup {Some(x) : x \in ScoreInputs}

Call(fn, args, result) == [fn |-> fn, args |-> args, result |-> result]

call_calculate_growth_rate ==
    /\ ml = NoCall /\ sched = NoJob
    /\ \E values \in SeriesInputs :
          ml' = Call("_calculate_growth_rate", <<values>>,
                     _calculate_growth_rate(values))
    /\ UNCHANGED <<apiVars, runVars, fetchVars, sched>>

call_predict_risk ==
    /\ ml = NoCall /\ sched = NoJob
    /\ \E row \in FeatureRows, noise \in NoiseDraws :
          ml' = Call("predict_risk", <<row>>,
                     predict_risk(<<row>>, <<noise>>))
    /\ UNCHANGED <<apiVars, runVars, fetchVars, sched>>

\* predict_risk is called once more on the frame of the last call.
call_predict_risk_again ==
    /\ ml.fn = "predict_risk"
    /\ \E noise \in NoiseDraws :
          ml' = Call("predict_risk", ml.args,
                     predict_risk(ml.args, <<noise>>))
    /\ UNCHANGED <<apiVars, runVars, fetchVars, sched>>

call_forecast ==
    /\ ml = NoCall /\ sched = NoJob
    /\ \E model_type \in ModelTypes, row \in FeatureRows,
          horizon_days \in HorizonInputs :
          \E ARIMA_AVAILABLE \in BOOLEAN, PROPHET_AVAILABLE \in BOOLEAN :
             ml' = Call("forecast", <<model_type, row, horizon_days>>,
                        forecast(DemandForecaster(model_type, ARIMA_AVAILABLE,
                                                  PROPHET_AVAILABLE),
                                 <<row>>, horizon_days))
    /\ UNCHANGED <<apiVars, runVars, fetchVars, sched>>

call_combine_results ==
    /\ ml = NoCall /\ sched = NoJob
    /\ \E forecasts \in {<<>>, forecast("simple", CombineFeatures,
                                        days_projection)},
          p \in OptionalScores, r \in OptionalScores :
          ml' = Call("_combine_results",
                     <<CombineFeatures, forecasts, RiskFrame(p, r)>>,
                     _combine_results(CombineFeatures, forecasts,
                                      RiskFrame(p, r)))
    /\ UNCHANGED <<apiVars, runVars, fetchVars, sched>>

NextML ==
    \/ call_calculate_growth_rate
    \/ call_predict_risk
    \/ call_predict_risk_again
    \/ call_forecast
    \/ call_combine_results

InitML ==
    /\ InitApi
    /\ InitRun
    /\ fs.historical_file = Absent
    /\ InitFetchIdle
    /\ ml = NoCall /\ sched = NoJob

SpecML == InitML /\ [][NextML]_vars

Next ==
    \/ trigger_pipeline
    \/ \E t \in DOMAIN bg : run_pipeline_background_start(t)
    \/ \E t \in DOMAIN bg : run_pipeline_background_finish(t)
    \/ get_pipeline_status
    \/ Tick

Spec == Init /\ [][Next]_vars

\* The event loop runs every background task it was given, and a run that
\* was started returns.
Fairness ==
    \A t \in 1..MaxTriggers :
        /\ WF_vars(t \in DOMAIN bg /\ run_pipeline_background_start(t))
        /\ WF_vars(t \in DOMAIN bg /\ run_pipeline_background_finish(t))

\* The run-status record without the status queries, which change nothing
\* but the last response.
NextLive ==
    \/ trigger_pipeline
    \/ \E t \in DOMAIN bg : run_pipeline_background_start(t)
    \/ \E t \in DOMAIN bg : run_pipeline_background_finish(t)
    \/ Tick

InitLive == Init /\ fs.historical_file = Absent

SpecLive == InitLive /\ [][NextLive]_vars /\ Fairness

\* ------------------------------------------------------------------------
\* scheduler.py next to the API process
\* ------------------------------------------------------------------------
MaxJobs == 2     \* scheduled jobs per behaviour

\* schedule.run_pending() calls scheduled_job at the scheduled hour:
\* asyncio.run(run_scheduled_pipeline()) constructs DailyPipeline and
\* enters run().
scheduled_job_start ==
    /\ sched.pc = "waiting"
    /\ sched.jobs < MaxJobs
    /\ sched' = [pc |-> "in_run", jobs |-> sched.jobs + 1]
    /\ UNCHANGED <<apiVars, runVars, fetchVars, ml>>

\* pipeline.run() has returned; the loop sleeps again.
scheduled_job_finish ==
    /\ sched.pc = "in_run"
    /\ sched' = [sched EXCEPT !.pc = "waiting"]
    /\ UNCHANGED <<apiVars, runVars, fetchVars, ml>>

NextSched ==
    \/ trigger_pipeline
    \/ \E t \in DOMAIN bg : run_pipeline_background_start(t)
    \/ \E t \in DOMAIN bg : run_pipeline_background_finish(t)
    \/ scheduled_job_start
    \/ scheduled_job_finish

SpecSched == InitLive /\ [][NextSched]_vars

\* ------------------------------------------------------------------------
\* Properties
\* ------------------------------------------------------------------------
InFlight == {t \in DOMAIN bg : bg[t] = "in_run"}

\* C1: for every interleaving of trigger requests and background-task
\* starts, at most one pipeline run is in flight at any time.
C1_SingleRunInFlight == Cardinality(InFlight) <= 1

\* C2: a trigger request received while status == "running" is answered
\* with 409, schedules no background task and leaves every field of the
\* status record unchanged.
C2_TriggerWhileRunningRejected ==
    [][(requests' # requests /\ pipeline_status.status = "running")
          => /\ response'.code = 409
             /\ bg' = bg
             /\ pipeline_status' = pipeline_status]_vars

C2_Witness ==
    /\ response.code = 409
    /\ pipeline_status.status = "running"
    /\ InFlight # {}

StageIndex(stage) == CHOOSE j \in DOMAIN Stages : Stages[j] = stage

\* C3: DailyPipeline.run never raises; when a stage throws, no later stage
\* is executed and run returns a result with status "failed" whose errors
\* list holds exactly one entry, the exception message.
C3_StageFailureGivesFailedResult ==
    /\ run.pc = "done" => run_result # None
    /\ run.failed_at # "" =>
          /\ run.pc = "done"
          /\ run_result # None
          /\ run_result[1].status = "failed"
          /\ Len(run_result[1].errors) = 1
          /\ run_result[1].errors[1] \in ErrorMsgs
          /\ \A j \in DOMAIN Stages :
                j >= StageIndex(run.failed_at)
                    => Stages[j] \notin Range(run.trace)

C3_Witness ==
    /\ run.failed_at = "forecast"
    /\ run.pc = "done"
    /\ run_result[1].status = "failed"
    /\ Len(run.trace) = StageIndex("forecast") - 1

\* C4: a run that failed because a stage before persist-output threw has
\* neither created nor modified any dated output artifact.
C4_FailedRunLeavesOutputUntouched ==
    (/\ run.pc = "done"
     /\ run_result # None
     /\ run_result[1].status = "failed"
     /\ run.failed_at \in Range(Stages) \ {"persist-output"})
        => fs.processed = pre.processed

C4_Witness ==
    /\ run.pc = "done"
    /\ run.failed_at = "combine"
    /\ run_result[1].status = "failed"
    /\ fs.processed[today] # Absent
    /\ fs.processed = pre.processed

\* The stages as the specification names them.
ClaimStageOrder ==
    <<"fetch", "snapshot", "extract", "normalize", "update-history",
      "persist-history", "engineer-features", "forecast", "classify-risk",
      "combine", "persist-output">>

ClaimStagesOf(trace) ==
    SelectSeq(trace, LAMBDA s : s \in Range(ClaimStageOrder))

IsPrefix(s, t) == Len(s) <= Len(t) /\ s = SubSeq(t, 1, Len(s))

\* C5: the stages of a run execute in the fixed order, each at most once
\* and none before its predecessor has finished; a completed run has
\* executed every one of them exactly once; the bootstrap fallback runs
\* only directly after engineer-features and at most once.
C5_StagesInOrder ==
    /\ IsPrefix(ClaimStagesOf(run.trace), ClaimStageOrder)
    /\ (run.pc = "done" /\ run_result # None
            /\ run_result[1].status = "completed")
          => ClaimStagesOf(run.trace) = ClaimStageOrder
    /\ \A i \in DOMAIN run.trace :
          run.trace[i] = "bootstrap-fallback"
              => /\ i > 1
                 /\ run.trace[i - 1] = "engineer-features"
                 /\ \A k \in DOMAIN run.trace :
                        run.trace[k] = "bootstrap-fallback" => k = i

C5_Witness ==
    /\ run.pc = "done"
    /\ runs = 2
    /\ run_result[1].status = "completed"
    /\ ClaimStagesOf(run.trace) = ClaimStageOrder

\* C6: fetch_all_sources returns, for every subset of connectors whose
\* fetch() throws, exactly the concatenation in connector order of the lists
\* returned by the connectors that did not throw.
C6_FetchIsolatesFailures ==
    /\ fa.all_data =
          Concat([i \in DOMAIN fa.outcomes |->
                    IF fa.outcomes[i].raises THEN <<>>
                    ELSE fa.outcomes[i].data])
    /\ fa.pc = "done" => Len(fa.outcomes) = Len(SourceNames)

C6_Witness ==
    /\ fa.pc = "done"
    /\ fa.outcomes[1].raises
    /\ ~ fa.outcomes[2].raises
    /\ fa.outcomes[3].raises
    /\ ~ fa.outcomes[4].raises
    /\ fa.all_data = mock_jobs \o mock_research

C8_RequestsSpacedByDelay ==
    \A k \in DOMAIN reqs :
        k > 1 => reqs[k].start - reqs[k - 1].end >= GITHUB_DELAY

\* C9: _update_historical_data is a pure append: the result is the input
\* series, unchanged and in the same order, followed by exactly one row per
\* key of new_skills dated today, also when the series already has a row
\* with the same (skill, date).
C9_UpdateIsPureAppend ==
    [][(run.pc = "update-history" /\ run'.pc = "persist-history")
          => LET series     == run.l.historical_data
                 new_skills == run.l.normalized_skills
                 result     == run'.l.updated_data
             IN  /\ Len(result) = Len(series) + Len(new_skills)
                 /\ SubSeq(result, 1, Len(series)) = series
                 /\ \A i \in DOMAIN new_skills :
                       result[Len(series) + i] =
                           HistoricalRow(new_skills[i].name,
                                         Timestamp(today, 0),
                                         new_skills[i].count)]_vars

C9_Witness ==
    /\ run.pc = "persist-history"
    /\ \E i \in DOMAIN run.l.historical_data,
          j \in DOMAIN run.l.normalized_skills :
            /\ run.l.historical_data[i].skill = run.l.normalized_skills[j].name
            /\ run.l.historical_data[i].date = Timestamp(today, 0)
    /\ Len(run.l.updated_data) =
          Len(run.l.historical_data) + Len(run.l.normalized_skills)

CountRow(rows, r) == Cardinality({i \in DOMAIN rows : rows[i] = r})

\* C10: across serialized runs the persisted historical series only grows:
\* every row of historical_skills.csv is still present with the same values
\* after any step of any run, and the row count never decreases.
C10_HistoryOnlyGrows ==
    [][LET before == FileRows(fs.historical_file)
           after  == FileRows(fs'.historical_file)
       IN  /\ Len(after) >= Len(before)
           /\ \A r \in Range(before) :
                 CountRow(before, r) <= CountRow(after, r)]_vars

C10_Witness ==
    /\ runs = 2
    /\ run.pc = "done"
    /\ pre.historical_file # Absent
    /\ Len(FileRows(pre.historical_file)) > Len(FileRows(SeedHistory))
    /\ Len(FileRows(fs.historical_file)) > Len(FileRows(pre.historical_file))
    /\ \A r \in Range(FileRows(SeedHistory)) :
          CountRow(FileRows(fs.historical_file), r) >= 1

\* A well-formed historical file: every column is there and every date cell
\* can be parsed.
WellFormed(file) ==
    /\ file # Absent
    /\ HasDateColumn(Content(file))
    /\ \A r \in Range(Content(file)) : r.date # None

\* The rows of a well-formed file, dates at day granularity.
RowsByDay(file) ==
    [i \in DOMAIN Content(file) |->
        [Content(file)[i] EXCEPT !.date = Normalize(@[1])]]

SameMultiset(a, b) ==
    /\ Len(a) = Len(b)
    /\ \A r \in Range(a) \cup Range(b) : CountRow(a, r) = CountRow(b, r)

\* C11: a run with no new skill counts executes save(load(x)); on a
\* well-formed file x it writes a file with the same multiset of rows at
\* day granularity, duplicates included, and save(load(.)) applied to the
\* written file gives that file again.
C11_SaveLoadRoundTrip ==
    [][(/\ run.pc = "persist-history"
        /\ run'.pc = "engineer-features"
        /\ run.l.updated_data = run.l.historical_data
        /\ WellFormed(pre.historical_file))
          => LET x == pre.historical_file
                 y == fs'.historical_file
             IN  /\ WellFormed(y)
                 /\ SameMultiset(RowsByDay(y), RowsByDay(x))
                 /\ _save_historical_data(_load_historical_data(y)) = y]_vars

C11_Witness ==
    /\ pre.historical_file = LegacyFile
    /\ run.pc = "engineer-features"
    /\ run.l.normalized_skills = <<>>
    /\ fs.historical_file # LegacyFile
    /\ Len(FileRows(fs.historical_file)) = 3
    /\ CountRow(FileRows(fs.historical_file),
                HistoricalRow("Python", FormatDate(Timestamp(-1, 0)), 4)) = 2

\* C12: when the historical file has no date column the load substitutes
\* an empty series and the run does not end with status "failed".
C12_MissingColumnRunNotFailed ==
    (KeyErrorDate(pre.historical_file) /\ run_result # None)
        => run_result[1].status # "failed"

\* The rows _load_historical_data is to return: those whose date cell can
\* be parsed, in file order.
ParseableRows(file) ==
    LET ok == SelectSeq(Content(file), LAMBDA r : r.date # None)
    IN  [i \in DOMAIN ok |-> [ok[i] EXCEPT !.date = @[1]]]

\* C13: loading a historical file with a date column does not raise; it
\* returns exactly the rows whose date can be parsed, and the run over such
\* a file does not fail.
C13_MalformedDateRowsDropped ==
    [][/\ (/\ run.pc = "load-history"
           /\ fs.historical_file # Absent
           /\ HasDateColumn(Content(fs.historical_file)))
             => /\ run'.pc = "update-history"
                /\ run'.l.historical_data = ParseableRows(fs.historical_file)
       /\ (/\ ~ KeyErrorDate(pre'.historical_file)
           /\ run_result' # None)
             => run_result'[1].status = "completed"]_vars

C13_Witness ==
    /\ pre.historical_file = MalformedDatesFile
    /\ run.pc = "done"
    /\ run_result[1].status = "completed"
    /\ \A r \in Range(FileRows(fs.historical_file)) : r.date # None
    /\ CountRow(FileRows(fs.historical_file),
                HistoricalRow("Python", FormatDate(Timestamp(0, 0)), 5)) = 1
    /\ Len(FileRows(fs.historical_file)) > 1

\* C14: _calculate_growth_rate returns 100.0 whenever the first observation
\* is 0 and the last observation is greater than 0, as for [0, 5].
C14_ZeroFirstGivesHundred ==
    (/\ ml.fn = "_calculate_growth_rate"
     /\ Len(ml.args[1]) >= 2
     /\ ml.args[1][1] = 0
     /\ ml.args[1][Len(ml.args[1])] > 0)
        => RatEq(ml.result, RatInt(100))

\* The growth rate as stated: over the strictly positive values only.
GrowthOverPositives(values) ==
    LET positive == SelectSeq(values, LAMBDA v : v > 0)
    IN  IF Len(positive) < 2 THEN RatInt(0)
        ELSE Rat((positive[Len(positive)] - positive[1]) * 100, positive[1])

\* C15: for a series of non-negative observations _calculate_growth_rate
\* returns 0.0 when fewer than 2 values are strictly positive and otherwise
\* ((last - first) / first) * 100 over the first and last strictly positive
\* values.
C15_GrowthOverPositiveValues ==
    ml.fn = "_calculate_growth_rate"
        => /\ ml.result.d > 0
           /\ RatEq(ml.result, GrowthOverPositives(ml.args[1]))

C15_Witness ==
    /\ ml.fn = "_calculate_growth_rate"
    /\ ml.args[1] = <<0, 2, 5>>
    /\ RatEq(ml.result, RatInt(150))

\* The score of a row as stated: the capped sum of the increments of the
\* rules that fire, or the base score, rounded to 3 decimals.
RuleScore(row) == RowRiskScore(row, 0)

\* C16: the score predict_risk gives a feature row is a function of that
\* row alone, the capped sum of the rule increments or the base score, and
\* two evaluations on the same row give the same score.
C16_ScoreIsFunctionOfRow ==
    ml.fn = "predict_risk"
        => \A i \in DOMAIN ml.result :
              ml.result[i].risk_score = RuleScore(ml.args[i])

\* C17: every risk_score returned by predict_risk lies in [0, 1].
C17_RiskScoreInUnitInterval ==
    ml.fn = "predict_risk"
        => /\ Len(ml.result) = Len(ml.args)
           /\ \A i \in DOMAIN ml.result :
                 /\ ml.result[i].risk_score >= 0
                 /\ ml.result[i].risk_score <= 1000

C17_Witness ==
    /\ ml.fn = "predict_risk"
    /\ ml.args[1] = FeatureRow("Python", Rat(-85, 1), Rat(85, 1), 0,
                               Rat(5000, 1), 0)
    /\ ml.result[1].risk_score = 1000

\* C18: in every row of the combined output risk_category is "high" iff
\* the score is >= 0.7, "low" iff it is <= 0.3, "medium" iff it lies
\* strictly between, and "unknown" iff the score is missing.
C18_CategoryFollowsScore ==
    ml.fn = "_combine_results"
        => \A i \in DOMAIN ml.result :
              LET score    == ml.result[i].risk_score
                  category == ml.result[i].risk_category
              IN  /\ category \in {"high", "low", "medium", "unknown"}
                  /\ category = "unknown" <=> score = None
                  /\ category = "high" <=> (score # None /\ score[1] >= 700)
                  /\ category = "low" <=> (score # None /\ score[1] <= 300)
                  /\ category = "medium"
                        <=> (score # None /\ 300 < score[1] /\ score[1] < 700)

C18_Witness ==
    /\ ml.fn = "_combine_results"
    /\ Len(ml.result) = 2
    /\ ml.result[1].risk_score = Some(700)
    /\ ml.result[1].risk_category = "high"
    /\ ml.result[2].risk_score = None
    /\ ml.result[2].risk_category = "unknown"

\* max(0, current_demand * (1 + (growth_rate/100) * (h/365)))
ProjectedDemand(row, h) ==
    RatMax0(Rat(row.current_demand
                    * (100 * 365 * row.job_posting_growth.d
                       + h * row.job_posting_growth.n),
                100 * 365 * row.job_posting_growth.d))

\* C19: forecast projects over the horizon_days h it is given:
\* forecast_demand == max(0, current_demand * (1 + (growth_rate/100) *
\* (h/365))).
C19_ForecastUsesHorizon ==
    ml.fn = "forecast"
        => \A i \in DOMAIN ml.result :
              RatEq(ml.result[i].forecast_demand,
                    ProjectedDemand(ml.args[2], ml.args[3]))

\* C20: for a feature row with current_demand >= 0 and any growth rate the
\* forecast_demand is >= 0.
C20_ForecastNeverNegative ==
    ml.fn = "forecast"
        => /\ Len(ml.result) = 1
           /\ \A i \in DOMAIN ml.result :
                 /\ ml.result[i].forecast_demand.d > 0
                 /\ ml.result[i].forecast_demand.n >= 0

C20_Witness ==
    /\ ml.fn = "forecast"
    /\ ml.args[2].job_posting_growth = Rat(-500, 1)
    /\ ml.args[2].current_demand = 4
    /\ ml.result[1].forecast_demand.n = 0

\* C21: a forecaster configured with "arima", "prophet" or an unknown model
\* type returns for every feature table the forecast_demand and
\* forecast_trend of the simple trend projection, whether or not the
\* advanced model can be imported.
C21_StrategiesFallBackToSimple ==
    ml.fn = "forecast"
        => /\ Len(ml.result) = 1
           /\ ml.result[1].skill = ml.args[2].skill
           /\ ml.result[1].forecast_demand = _simple_forecast(ml.args[2]).demand
           /\ ml.result[1].forecast_trend = _simple_forecast(ml.args[2]).trend

C21_Witness ==
    /\ ml.fn = "forecast"
    /\ ml.args[1] = "arima"
    /\ ml.args[2].job_posting_growth = Rat(50, 1)
    /\ ml.args[2].current_demand = 4
    /\ ml.result[1].forecast_demand = Rat(4 * (36500 + 90 * 50), 36500)
    /\ ml.result[1].forecast_trend = "increasing"

\* C22: a run that starts with no historical file and normalizes at least
\* one skill completes and writes an output artifact with exactly one row
\* per normalized skill, each with current_demand >= 1 and a risk_score in
\* [0, 1].
C22_FirstRunOneRowPerSkill ==
    [][/\ (pre'.historical_file = Absent /\ run_result' # None)
             => run_result'[1].status = "completed"
       /\ (/\ run.pc = "persist-output"
           /\ run'.pc = "done"
           /\ pre.historical_file = Absent
           /\ run.l.normalized_skills # <<>>)
             => LET output == FileRows(fs'.processed[today])
                    skills == run.l.normalized_skills
                IN  /\ fs'.processed[today] # Absent
                    /\ Len(output) = Len(skills)
                    /\ \A i \in DOMAIN skills :
                          Cardinality({j \in DOMAIN output :
                              output[j].skill = skills[i].name}) = 1
                    /\ \A j \in DOMAIN output :
                          /\ output[j].current_demand >= 1
                          /\ output[j].risk_score # None
                          /\ output[j].risk_score[1] >= 0
                          /\ output[j].risk_score[1] <= 1000]_vars

C22_Witness ==
    /\ pre.historical_file = Absent
    /\ runs = 1
    /\ run.pc = "done"
    /\ run_result[1].status = "completed"
    /\ run_result[1].skills_extracted = Some(2)
    /\ Len(FileRows(fs.processed[today])) = 2
    /\ \A j \in DOMAIN FileRows(fs.processed[today]) :
          FileRows(fs.processed[today])[j].current_demand >= 1

Terminal == {"completed", "failed"}

\* C23: every accepted run reaches a terminal state: each background task
\* that was scheduled ends, a status of "running" is followed by
\* "completed" or "failed", the status never returns to "idle", and a
\* trigger request that arrives in a terminal state is accepted.
C23_AcceptedRunTerminates ==
    /\ \A t \in 1..MaxTriggers :
          (t \in DOMAIN bg) ~> (t \in DOMAIN bg /\ bg[t] = "done")
    /\ (pipeline_status.status = "running")
          ~> (pipeline_status.status \in Terminal)
    /\ [][pipeline_status.status # "idle"
            => pipeline_status'.status # "idle"]_vars
    /\ [][(requests' # requests /\ pipeline_status.status \in Terminal)
            => /\ response'.code = 200
               /\ bg' = Append(bg, "scheduled")]_vars

C23_Witness ==
    /\ bg = <<"done", "scheduled">>
    /\ pipeline_status.status = "failed"
    /\ response.code = 200
    /\ response.body[1].started_at[1] > pipeline_status.completed_at[1]

\* C24: in every reachable state of the run-status record, status "failed"
\* implies a non-empty errors list and status "completed" an empty one.
C24_ErrorsMatchStatus ==
    /\ pipeline_status.status = "failed" => pipeline_status.errors # <<>>
    /\ pipeline_status.status = "completed" => pipeline_status.errors = <<>>

C24_Witness ==
    /\ bg = <<"done", "done">>
    /\ pipeline_status.status = "failed"
    /\ Len(pipeline_status.errors) = 1
    /\ pipeline_status.records_processed = 0
    /\ pipeline_status.completed_at[1] > pipeline_status.started_at[1]

\* C29: in every reachable state of the run-status record, the initial idle
\* state included, the value get_pipeline_status builds satisfies the
\* PipelineStatus type: started_at is a timestamp, records_processed an
\* integer and errors a list, and the query answers with it.
C29_StatusQueryWellTyped ==
    /\ pipeline_status.status \in {"idle", "running", "completed", "failed"}
    /\ pipeline_status.started_at # None
    /\ pipeline_status.records_processed \in Nat
    /\ pipeline_status.errors \in Seq(ErrorMsgs)
    /\ response.code # 500

\* C30: whenever the status is "running" the record describes only the run
\* in flight: completed_at is absent, records_processed is 0 and errors is
\* empty.
C30_RunningRecordIsFresh ==
    pipeline_status.status = "running"
        => /\ pipeline_status.completed_at = None
           /\ pipeline_status.records_processed = 0
           /\ pipeline_status.errors = <<>>

\* C25: a run started by the scheduler never begins while an API-triggered
\* run is in flight and an API-triggered run never begins while a
\* scheduler-started run is in flight, so no two runs work on
\* historical_skills.csv at overlapping times.
C25_CallersExcludeEachOther ==
    ~ (sched.pc = "in_run" /\ InFlight # {})

\* C26: the raw snapshot is immutable: once a run has written a raw snapshot
\* file, no later step of any run (a second run on the same calendar day
\* included) changes that file.
C26_RawSnapshotImmutable ==
    [][\A d \in Days :
          fs.snapshots[d] # Absent => fs'.snapshots[d] = fs.snapshots[d]]_vars

\* The stages that follow persist-history.
AfterPersist ==
    {"engineer-features", "forecast", "classify-risk", "combine",
     "persist-output"}

\* The rows a run appends for its normalized skills, as the file holds them.
AppendedRows(skills, day) ==
    [i \in DOMAIN skills |->
        HistoricalRow(skills[i].name, FormatDate(Timestamp(day, 0)),
                      skills[i].count)]

\* C27: the history update is not rolled back on failure: when a run fails
\* at a stage after persist-history, historical_skills.csv holds the rows it
\* had when the run started followed by one row per skill normalized in the
\* run, the result is "failed" and no output artifact was written; a retry
\* on the same day therefore appends those rows a second time.
C27_HistoryKeptOnFailure ==
    [][(run.pc \in AfterPersist /\ run'.pc = "done" /\ run'.failed_at = run.pc)
          => /\ run_result' # None
             /\ run_result'[1].status = "failed"
             /\ FileRows(fs'.historical_file) =
                    FileRows(pre.historical_file)
                        \o AppendedRows(run.l.normalized_skills, today)
             /\ fs'.processed = pre.processed]_vars

\* The retry: the first run of the day started without a file, wrote its
\* rows and no output; the second run of the day failed after
\* persist-history and the file holds two rows of one skill for that day.
C27_Witness ==
    /\ runs = 2
    /\ run.pc = "done"
    /\ run.failed_at \in AfterPersist
    /\ run_result[1].status = "failed"
    /\ FileRows(pre.historical_file) # <<>>
    /\ \A r \in Range(FileRows(pre.historical_file)) :
          r.date = FormatDate(Timestamp(today, 0))
    /\ pre.processed[today] = Absent
    /\ fs.processed[today] = Absent
    /\ \E i, j \in DOMAIN FileRows(fs.historical_file) :
          /\ i < j
          /\ FileRows(fs.historical_file)[i].skill =
                 FileRows(fs.historical_file)[j].skill
          /\ FileRows(fs.historical_file)[i].date = FormatDate(Timestamp(today, 0))
          /\ FileRows(fs.historical_file)[j].date = FormatDate(Timestamp(today, 0))

====
